---------------------------- MODULE Spec2Model ----------------------------
(***************************************************************************)
(* Model of the generic list handler (handlers factory, getAll) and of the *)
(* ApiFeatures query pipeline (paginate, filter, search, limitFields,      *)
(* sort) of the Ecommerce-STD backend.                                     *)
(*                                                                         *)
(* JavaScript strings are sequences of one-character strings, so that the  *)
(* conversions the code performs (numeric coercion, JSON.stringify, the    *)
(* operator regex, JSON.parse, split/join) are computed and not assumed.   *)
(* A JavaScript object is a sequence of [k, v] pairs with distinct keys,   *)
(* in insertion order. A value is tagged:                                  *)
(*   [t |-> "str", s |-> chars]     a string                               *)
(*   [t |-> "obj", o |-> pairs]     a nested object                        *)
(*   [t |-> "undef"]                undefined (property absent)            *)
(***************************************************************************)
EXTENDS Integers, Sequences, FiniteSets, TLC

VARIABLES
    db,               \* the collection: the set of stored documents
    strictQuery,      \* the engine's strictQuery setting
    req,              \* the request in hand: req.query and req.filterObj
    modelName,        \* the resource tag the route gave getAll
    documentsCounts,  \* getAll's documentsCounts
    apiFeatures,      \* the ApiFeatures instance
    res,              \* the response sent
    pc,               \* where the handler stands
    env,              \* process.env: NODE_ENV and SKIP_CSRF
    err,              \* the error handed to next(), on its way to the handlers
    issued,           \* the CSRF secrets and tokens issued so far, latest last
    pending           \* the save() and remove() calls started and not settled

vars == <<db, strictQuery, req, modelName, documentsCounts, apiFeatures, res, pc,
          env, err, issued, pending>>

(***************************************************************************)
(* Bounds                                                                  *)
(***************************************************************************)
\* longest page / limit string drawn for the pagination specification
MaxNumLen == 2
\* largest small total count drawn for the pagination specification
MaxCount == 4
\* most parameters in a query string drawn for the filter specification
MaxParams == 2
\* number of documents the collection may hold
MaxDocs == 3
\* the secrets a client may hold in its _csrf_secret cookie
MaxSecrets == 2
\* the salts tokens.create may draw
MaxSalts == 1
\* the token issuances followed in one run
MaxIssues == 2
\* the save() and remove() calls in flight at once
MaxPending == 1
\* the longest stored image of a brand that is still updated
MaxStoredLen == 15

(***************************************************************************)
(* Strings and values                                                      *)
(***************************************************************************)
Str(chars) == [t |-> "str", s |-> chars]
Obj(pairs) == [t |-> "obj", o |-> pairs]
Undefined == [t |-> "undef"]
Pair(key, val) == [k |-> key, v |-> val]

\* obj[key] on an object given as a sequence of pairs
Get(pairs, key) ==
    IF \E i \in 1..Len(pairs) : pairs[i].k = key
    THEN pairs[CHOOSE i \in 1..Len(pairs) : pairs[i].k = key].v
    ELSE Undefined

Keys(pairs) == {pairs[i].k : i \in 1..Len(pairs)}

\* all sequences over S of length at most n
RECURSIVE SeqsUpTo(_, _)
SeqsUpTo(S, n) ==
    IF n = 0 THEN {<<>>}
    ELSE LET shorter == SeqsUpTo(S, n - 1)
         IN  shorter \cup {Append(w, c) : w \in shorter, c \in S}

(***************************************************************************)
(* JavaScript numbers: an integer, or NaN                                  *)
(***************************************************************************)
Num(i) == [nan |-> FALSE, n |-> i]
NaN == [nan |-> TRUE, n |-> 0]

Digits == {"0", "1", "2", "3", "4", "5", "6", "7", "8", "9"}

DigitValue(c) ==
    CASE c = "0" -> 0 [] c = "1" -> 1 [] c = "2" -> 2 [] c = "3" -> 3
      [] c = "4" -> 4 [] c = "5" -> 5 [] c = "6" -> 6 [] c = "7" -> 7
      [] c = "8" -> 8 [] c = "9" -> 9

IsDigits(s) == Len(s) > 0 /\ \A i \in 1..Len(s) : s[i] \in Digits

RECURSIVE DecimalValue(_)
DecimalValue(s) ==
    IF s = <<>> THEN 0
    ELSE 10 * DecimalValue(SubSeq(s, 1, Len(s) - 1)) + DigitValue(s[Len(s)])

\* ToNumber on a string of signs, digits and letters: the empty string is 0,
\* an optionally signed run of decimal digits is its value, anything else NaN
StringToNumber(s) ==
    IF s = <<>> THEN Num(0)
    ELSE IF IsDigits(s) THEN Num(DecimalValue(s))
    ELSE IF Head(s) = "-" /\ IsDigits(Tail(s)) THEN Num(0 - DecimalValue(Tail(s)))
    ELSE IF Head(s) = "+" /\ IsDigits(Tail(s)) THEN Num(DecimalValue(Tail(s)))
    ELSE NaN

\* ToNumber on a query-string value: undefined and plain objects are NaN
ToNumber(val) ==
    IF val.t = "str" THEN StringToNumber(val.s) ELSE NaN

\* the expression  x * 1 || dflt : NaN and 0 are falsy
TimesOneOr(val, dflt) ==
    LET x == ToNumber(val)
    IN  IF x.nan \/ x.n = 0 THEN dflt ELSE x.n

\* Math.floor in the place of Math.ceil
MathCeilDiv_floor(a, b) ==
    IF b > 0 THEN a \div b ELSE (0 - a) \div (0 - b)

\* Math.ceil(a / b) for integers a and b # 0 (\div rounds down)
MathCeilDiv(a, b) ==
    IF b > 0 THEN 0 - ((0 - a) \div b) ELSE 0 - (a \div (0 - b))

(***************************************************************************)
(* Names used by the code                                                  *)
(***************************************************************************)
K_page == <<"p", "a", "g", "e">>
K_limit == <<"l", "i", "m", "i", "t">>
K_sort == <<"s", "o", "r", "t">>
K_fields == <<"f", "i", "e", "l", "d", "s">>
K_keyword == <<"k", "e", "y", "w", "o", "r", "d">>

\* field names
F_price == <<"p", "r", "i", "c", "e">>
F_category == <<"c", "a", "t", "e", "g", "o", "r", "y">>
F_name == <<"n", "a", "m", "e">>
F_title == <<"t", "i", "t", "l", "e">>
F_description == <<"d", "e", "s", "c", "r", "i", "p", "t", "i", "o", "n">>
F_createdAt == <<"c", "r", "e", "a", "t", "e", "d", "A", "t">>
F_createAt == <<"c", "r", "e", "a", "t", "e", "A", "t">>
F_lt == <<"l", "t">>
F_id == <<"_", "i", "d">>
F_v == <<"_", "_", "v">>

(***************************************************************************)
(* The query builder (mongoose Query) as ApiFeatures drives it: the        *)
(* arguments of the find() calls in call order, and the last sort, select, *)
(* skip and limit arguments.                                               *)
(***************************************************************************)
NotSet == [t |-> "unset"]

ModelFind(filter) ==
    [conds |-> <<filter>>, sortArg |-> NotSet, selectArg |-> NotSet,
     skipArg |-> NotSet, limitArg |-> NotSet]

QueryFind_replace(q, cond) == [q EXCEPT !.conds = <<cond>>]
QueryFind(q, cond) == [q EXCEPT !.conds = Append(@, cond)]
QuerySkip(q, n) == [q EXCEPT !.skipArg = [t |-> "num", n |-> n]]
QueryLimit(q, n) == [q EXCEPT !.limitArg = [t |-> "num", n |-> n]]

\* new ApiFeatures(mongooseQuery, queryString)
NewApiFeatures(mongooseQuery, queryString) ==
    [mongooseQuery |-> mongooseQuery, queryString |-> queryString,
     paginationResult |-> Undefined]

(***************************************************************************)
(* ApiFeatures.paginate(countDocuments)                                    *)
(***************************************************************************)
PageOf(queryString) == TimesOneOr(Get(queryString, K_page), 1)
LimitOf(queryString) == TimesOneOr(Get(queryString, K_limit), 50)

\* the next page offered when endIndex <= countDocuments
PaginationOf_nextOffByOne(page, limit, countDocuments) ==
    LET skip == (page - 1) * limit
        endIndex == page * limit
        base == [currentPage |-> page, limit |-> limit,
                 numberOfPages |-> MathCeilDiv(countDocuments, limit)]
        withNext == IF endIndex <= countDocuments
                    THEN [f \in DOMAIN base \cup {"next"} |->
                             IF f = "next" THEN page + 1 ELSE base[f]]
                    ELSE base
    IN  IF skip > 0
        THEN [f \in DOMAIN withNext \cup {"prev"} |->
                 IF f = "prev" THEN page - 1 ELSE withNext[f]]
        ELSE withNext

PaginationOf(page, limit, countDocuments) ==
    LET skip == (page - 1) * limit
        endIndex == page * limit
        base == [currentPage |-> page, limit |-> limit,
                 numberOfPages |-> MathCeilDiv(countDocuments, limit)]
        withNext == IF endIndex < countDocuments
                    THEN [f \in DOMAIN base \cup {"next"} |->
                             IF f = "next" THEN page + 1 ELSE base[f]]
                    ELSE base
    IN  IF skip > 0
        THEN [f \in DOMAIN withNext \cup {"prev"} |->
                 IF f = "prev" THEN page - 1 ELSE withNext[f]]
        ELSE withNext

paginate(api, countDocuments) ==
    LET page == PageOf(api.queryString)
        limit == LimitOf(api.queryString)
        skip == (page - 1) * limit
    IN  [api EXCEPT
            !.mongooseQuery = QueryLimit(QuerySkip(@, skip), limit),
            !.paginationResult = PaginationOf(page, limit, countDocuments)]

(***************************************************************************)
(* ApiFeatures.filter(): copy the query string, delete the control keys,   *)
(* JSON.stringify, prefix the words gte|gt|lte|lt with "$", JSON.parse,    *)
(* and find() with the result                                              *)
(***************************************************************************)
excludesFields == {K_page, K_sort, K_limit, K_fields}

\* { ...queryString } with the excluded fields deleted
DeleteExcluded(queryString) ==
    SelectSeq(queryString, LAMBDA p : p.k \notin excludesFields)

\* JSON.stringify of strings and objects whose characters need no escape
RECURSIVE JSONStringify(_)
RECURSIVE StringifyMembers(_, _)
StringifyMembers(pairs, i) ==
    IF i > Len(pairs) THEN <<>>
    ELSE (IF i > 1 THEN <<",">> ELSE <<>>)
            \o <<"\"">> \o pairs[i].k \o <<"\"", ":">>
            \o JSONStringify(pairs[i].v)
            \o StringifyMembers(pairs, i + 1)

JSONStringify(val) ==
    IF val.t = "str" THEN <<"\"">> \o val.s \o <<"\"">>
    ELSE <<"{">> \o StringifyMembers(val.o, 1) \o <<"}">>

\* \w of the regular expression
WordChars ==
    {"a", "b", "c", "d", "e", "f", "g", "h", "i", "j", "k", "l", "m",
     "n", "o", "p", "q", "r", "s", "t", "u", "v", "w", "x", "y", "z",
     "A", "B", "C", "D", "E", "F", "G", "H", "I", "J", "K", "L", "M",
     "N", "O", "P", "Q", "R", "S", "T", "U", "V", "W", "X", "Y", "Z",
     "_"} \cup Digits

\* \b between positions i - 1 and i of text
WordBoundary(text, i) ==
    LET before == i > 1 /\ text[i - 1] \in WordChars
        after == i <= Len(text) /\ text[i] \in WordChars
    IN  before # after

\* the alternatives of (gte|gt|lte|lt), in the order the regex tries them
Operators == << <<"g", "t", "e">>, <<"g", "t">>, <<"l", "t", "e">>, <<"l", "t">> >>

\* does \b alt \b match text at position i
MatchesAt(text, i, alt) ==
    /\ i + Len(alt) - 1 <= Len(text)
    /\ SubSeq(text, i, i + Len(alt) - 1) = alt
    /\ WordBoundary(text, i)
    /\ WordBoundary(text, i + Len(alt))

\* text.replace(/\b(gte|gt|lte|lt)\b/g, (match) => `$${match}`) from position i
RECURSIVE ReplaceOperators(_, _)
ReplaceOperators(text, i) ==
    IF i > Len(text) THEN <<>>
    ELSE IF \E a \in 1..Len(Operators) : MatchesAt(text, i, Operators[a])
    THEN LET a == CHOOSE a \in 1..Len(Operators) :
                     /\ MatchesAt(text, i, Operators[a])
                     /\ \A b \in 1..(a - 1) : ~MatchesAt(text, i, Operators[b])
         IN  <<"$">> \o Operators[a] \o ReplaceOperators(text, i + Len(Operators[a]))
    ELSE <<text[i]>> \o ReplaceOperators(text, i + 1)

\* obj[key] = val : a repeated key keeps its place and takes the later value
SetKey(pairs, key, val) ==
    IF key \in Keys(pairs)
    THEN [i \in 1..Len(pairs) |->
             IF pairs[i].k = key THEN Pair(key, val) ELSE pairs[i]]
    ELSE Append(pairs, Pair(key, val))

\* position of the first double quote at or after i (0 when there is none)
RECURSIVE NextQuote(_, _)
NextQuote(text, i) ==
    IF i > Len(text) THEN 0
    ELSE IF text[i] = "\"" THEN i
    ELSE NextQuote(text, i + 1)

\* JSON.parse of a value starting at position i: [v |-> value, next |-> position
\* after it]
RECURSIVE JSONParseValue(_, _)
RECURSIVE JSONParseMembers(_, _, _)
JSONParseMembers(text, i, acc) ==
    \* text[i] is the opening quote of a key
    LET keyEnd == NextQuote(text, i + 1)
        key == SubSeq(text, i + 1, keyEnd - 1)
        \* text[keyEnd + 1] is the colon
        val == JSONParseValue(text, keyEnd + 2)
        members == SetKey(acc, key, val.v)
    IN  IF text[val.next] = ","
        THEN JSONParseMembers(text, val.next + 1, members)
        ELSE [v |-> Obj(members), next |-> val.next + 1]

JSONParseValue(text, i) ==
    IF text[i] = "\""
    THEN LET close == NextQuote(text, i + 1)
         IN  [v |-> Str(SubSeq(text, i + 1, close - 1)), next |-> close + 1]
    ELSE \* text[i] is "{"
         IF text[i + 1] = "}"
         THEN [v |-> Obj(<<>>), next |-> i + 2]
         ELSE JSONParseMembers(text, i + 1, <<>>)

JSONParse(text) == JSONParseValue(text, 1).v

\* the argument filter() passes to find()
FilterConditions(queryString) ==
    LET queryStringObj == DeleteExcluded(queryString)
        queryStr == ReplaceOperators(JSONStringify(Obj(queryStringObj)), 1)
    IN  JSONParse(queryStr)

filter_deleting(api) ==
    [api EXCEPT !.mongooseQuery = QueryFind(@, FilterConditions(api.queryString)),
                !.queryString = DeleteExcluded(api.queryString)]

filter(api) ==
    [api EXCEPT !.mongooseQuery = QueryFind(@, FilterConditions(api.queryString))]

(***************************************************************************)
(* ApiFeatures.search(modelName), limitFields() and sort()                 *)
(***************************************************************************)
Arr(elems) == [t |-> "arr", a |-> elems]

\* JavaScript truthiness of a query-string value
Truthy(val) == val.t = "obj" \/ (val.t = "str" /\ val.s # <<>>)

M_Products == <<"P", "r", "o", "d", "u", "c", "t", "s">>
OP_or == <<"$", "o", "r">>
OP_regex == <<"$", "r", "e", "g", "e", "x">>
OP_options == <<"$", "o", "p", "t", "i", "o", "n", "s">>

\* { $regex: keyword, $options: "i" }
RegexOf(keyword) == Obj(<<Pair(OP_regex, keyword), Pair(OP_options, Str(<<"i">>))>>)

SearchConditions_titleOnly(keyword, name) ==
    IF name = M_Products
    THEN Obj(<<Pair(OP_or, Arr(<<Obj(<<Pair(F_title, RegexOf(keyword))>>)>>))>>)
    ELSE Obj(<<Pair(F_name, RegexOf(keyword))>>)

SearchConditions(keyword, name) ==
    IF name = M_Products
    THEN Obj(<<Pair(OP_or, Arr(<<Obj(<<Pair(F_title, RegexOf(keyword))>>),
                                Obj(<<Pair(F_description, RegexOf(keyword))>>)>>))>>)
    ELSE Obj(<<Pair(F_name, RegexOf(keyword))>>)

search(api, name) ==
    LET keyword == Get(api.queryString, K_keyword)
    IN  IF Truthy(keyword)
        THEN [api EXCEPT !.mongooseQuery = QueryFind(@, SearchConditions(keyword, name))]
        ELSE api

SplitCommaJoinSpace_noJoin(chars) == chars

\* str.split(",").join(" ")
SplitCommaJoinSpace(chars) ==
    [i \in 1..Len(chars) |-> IF chars[i] = "," THEN " " ELSE chars[i]]

\* a truthy value that is no string has no split method: TypeError
SplitThrows(val) == Truthy(val) /\ val.t # "str"

QuerySelect(q, arg) == [q EXCEPT !.selectArg = Str(arg)]
QuerySort(q, arg) == [q EXCEPT !.sortArg = Str(arg)]

limitFields(api) ==
    LET fields == Get(api.queryString, K_fields)
    IN  IF Truthy(fields)
        THEN [api EXCEPT !.mongooseQuery = QuerySelect(@, SplitCommaJoinSpace(fields.s))]
        ELSE [api EXCEPT !.mongooseQuery = QuerySelect(@, <<"-">> \o F_v)]

sort(api) ==
    LET sortParam == Get(api.queryString, K_sort)
    IN  IF Truthy(sortParam)
        THEN [api EXCEPT !.mongooseQuery = QuerySort(@, SplitCommaJoinSpace(sortParam.s))]
        ELSE [api EXCEPT !.mongooseQuery = QuerySort(@, <<"-">> \o F_createAt)]

(***************************************************************************)
(* The persistence engine behind the builder, as far as the handlers rely  *)
(* on it: documents, the schema's field types, matching of find()          *)
(* conditions (all find() calls of one query are ANDed), ordering,         *)
(* skip/limit and projection. A document is an object whose values are     *)
(* strings or numbers [t |-> "num", n |-> i].                              *)
(***************************************************************************)
DocNum(i) == [t |-> "num", n |-> i]

\* the paths of the schema and their types; timestamps: true adds createdAt
SchemaPaths == {F_id, F_name, F_title, F_description, F_price, F_category,
                F_createdAt, F_v}
NumberPaths == {F_price, F_createdAt, F_v}

DigitChar(i) == CHOOSE c \in Digits : DigitValue(c) = i

\* the documents the collection may hold
Document(i) ==
    <<Pair(F_id, Str(<<DigitChar(i)>>)),
      Pair(F_name, Str(CASE i = 1 -> <<"P", "h", "o", "n", "e">> [] i = 2 -> <<"t", "v">> [] i = 3 -> <<"c", "a", "m">>
                         [] OTHER -> <<"p", "c", DigitChar(i)>>)),
      Pair(F_title, Str(CASE i = 1 -> <<"P", "h", "o", "n", "e">> [] i = 2 -> <<"t", "v">> [] i = 3 -> <<"c", "a", "m">>
                          [] OTHER -> <<"p", "c", DigitChar(i)>>)),
      Pair(F_description, Str(CASE i = 1 -> <<"n", "e", "w">> [] i = 2 -> <<"i", "p", "h", "o", "n", "e">>
                                [] OTHER -> <<"h", "d">>)),
      Pair(F_price, DocNum(IF i <= 2 THEN 100 ELSE 50)),
      Pair(F_category, Str(IF i <= 2 THEN <<"e", "l", "e", "c", "t", "r", "o", "n", "i", "c", "s">> ELSE <<"t", "o", "y", "s">>)),
      Pair(F_createdAt, DocNum(i)),
      Pair(F_v, DocNum(0))>>

DocPool == {Document(i) : i \in 1..MaxDocs}

\* character codes, for the order of strings
CharOrder ==
    <<" ", "$", ",", "-", "0", "1", "2", "3", "4", "5", "6", "7", "8", "9",
      "A", "B", "C", "D", "E", "F", "G", "H", "I", "J", "K", "L", "M",
      "N", "O", "P", "Q", "R", "S", "T", "U", "V", "W", "X", "Y", "Z", "_",
      "a", "b", "c", "d", "e", "f", "g", "h", "i", "j", "k", "l", "m",
      "n", "o", "p", "q", "r", "s", "t", "u", "v", "w", "x", "y", "z">>
CharCode(c) == CHOOSE i \in 1..Len(CharOrder) : CharOrder[i] = c

UpperLetters == <<"A", "B", "C", "D", "E", "F", "G", "H", "I", "J", "K", "L", "M",
                  "N", "O", "P", "Q", "R", "S", "T", "U", "V", "W", "X", "Y", "Z">>
LowerLetters == <<"a", "b", "c", "d", "e", "f", "g", "h", "i", "j", "k", "l", "m",
                  "n", "o", "p", "q", "r", "s", "t", "u", "v", "w", "x", "y", "z">>
LowerChar(c) ==
    IF \E i \in 1..Len(UpperLetters) : UpperLetters[i] = c
    THEN LowerLetters[CHOOSE i \in 1..Len(UpperLetters) : UpperLetters[i] = c]
    ELSE c
ToLowerCase(chars) == [i \in 1..Len(chars) |-> LowerChar(chars[i])]

\* does text contain part as a substring
Contains(text, part) ==
    \E i \in 1..(Len(text) - Len(part) + 1) :
        SubSeq(text, i, i + Len(part) - 1) = part

\* { $regex: pattern, $options: "i" } for a pattern of literal characters
RegexTest(text, pattern, options) ==
    IF "i" \in {options[j] : j \in 1..Len(options)}
    THEN Contains(ToLowerCase(text), ToLowerCase(pattern))
    ELSE Contains(text, pattern)

\* -1, 0 or 1 as string a sorts before, with or after b
RECURSIVE CompareStrings(_, _)
CompareStrings(a, b) ==
    IF a = <<>> /\ b = <<>> THEN 0
    ELSE IF a = <<>> THEN 0 - 1
    ELSE IF b = <<>> THEN 1
    ELSE IF CharCode(Head(a)) < CharCode(Head(b)) THEN 0 - 1
    ELSE IF CharCode(Head(a)) > CharCode(Head(b)) THEN 1
    ELSE CompareStrings(Tail(a), Tail(b))

\* the order of values: missing, then numbers, then strings
TypeRank(val) == CASE val.t = "undef" -> 0 [] val.t = "num" -> 1 [] OTHER -> 2

CompareValues(a, b) ==
    IF TypeRank(a) # TypeRank(b)
    THEN (IF TypeRank(a) < TypeRank(b) THEN 0 - 1 ELSE 1)
    ELSE IF a.t = "num"
    THEN (IF a.n < b.n THEN 0 - 1 ELSE IF a.n > b.n THEN 1 ELSE 0)
    ELSE IF a.t = "str" THEN CompareStrings(a.s, b.s)
    ELSE 0

\* the pieces of chars between separators sep, empty pieces dropped
RECURSIVE Tokens(_, _, _)
Tokens(chars, sep, current) ==
    IF chars = <<>>
    THEN (IF current = <<>> THEN <<>> ELSE <<current>>)
    ELSE IF Head(chars) = sep
    THEN (IF current = <<>> THEN <<>> ELSE <<current>>)
            \o Tokens(Tail(chars), sep, <<>>)
    ELSE Tokens(Tail(chars), sep, Append(current, Head(chars)))

\* the sort argument "a -b" as keys: field and direction
SortKeys(arg) ==
    LET tokens == Tokens(arg, " ", <<>>)
    IN  [i \in 1..Len(tokens) |->
            IF Head(tokens[i]) = "-"
            THEN [field |-> Tail(tokens[i]), dir |-> 0 - 1]
            ELSE [field |-> tokens[i], dir |-> 1]]

\* -1, 0 or 1 as document a comes before, ties with or comes after b
RECURSIVE CompareDocs(_, _, _)
CompareDocs(a, b, keys) ==
    IF keys = <<>> THEN 0
    ELSE LET c == CompareValues(Get(a, Head(keys).field), Get(b, Head(keys).field))
         IN  IF c # 0 THEN c * Head(keys).dir
             ELSE CompareDocs(a, b, Tail(keys))

\* the value a condition's string is cast to for a path of the schema
CastFor(path, chars) ==
    IF path \in NumberPaths
    THEN (IF StringToNumber(chars).nan THEN Undefined
          ELSE DocNum(StringToNumber(chars).n))
    ELSE Str(chars)

OP_gte == <<"$", "g", "t", "e">>
OP_gt == <<"$", "g", "t">>
OP_lte == <<"$", "l", "t", "e">>
OP_lt == <<"$", "l", "t">>
RangeOperators == {OP_gte, OP_gt, OP_lte, OP_lt}

\* one operator of a condition object on a document's value
OperatorHolds(val, path, op, arg, whole) ==
    IF op \in RangeOperators
    THEN LET bound == IF arg.t = "str" THEN CastFor(path, arg.s) ELSE Undefined
             c == CompareValues(val, bound)
         IN  /\ val.t # "undef" /\ bound.t = val.t
             /\ CASE op = OP_gte -> c >= 0 [] op = OP_gt -> c > 0
                  [] op = OP_lte -> c <= 0 [] OTHER -> c < 0
    ELSE IF op = OP_regex
    THEN /\ val.t = "str" /\ arg.t = "str"
         /\ RegexTest(val.s, arg.s,
                      IF Get(whole, OP_options).t = "str"
                      THEN Get(whole, OP_options).s ELSE <<>>)
    ELSE IF op = OP_options THEN TRUE
    ELSE FALSE

\* a condition on one path
PathHolds(doc, path, cond) ==
    LET val == Get(doc, path)
    IN  IF cond.t = "str" THEN val.t # "undef" /\ val = CastFor(path, cond.s)
        ELSE \A j \in 1..Len(cond.o) :
                OperatorHolds(val, path, cond.o[j].k, cond.o[j].v, cond.o)

\* does the document satisfy the argument of one find() call; with
\* strictQuery the engine drops the paths that are not in the schema
RECURSIVE Matches(_, _, _)
Matches(doc, cond, strict) ==
    \A j \in 1..Len(cond.o) :
        LET key == cond.o[j].k
            val == cond.o[j].v
        IN  IF key = OP_or
            THEN \E e \in 1..Len(val.a) : Matches(doc, val.a[e], strict)
            ELSE IF strict /\ key \notin SchemaPaths THEN TRUE
            ELSE PathHolds(doc, key, val)

\* conditions the engine rejects: an operator in the place of a path, or a
\* value that cannot be cast to a Number path
RECURSIVE ConditionRejected(_)
ConditionRejected(cond) ==
    \E j \in 1..Len(cond.o) :
        LET key == cond.o[j].k
            val == cond.o[j].v
        IN  IF key = OP_or
            THEN \E e \in 1..Len(val.a) : ConditionRejected(val.a[e])
            ELSE \/ Head(key) = "$"
                 \/ /\ key \in NumberPaths
                    /\ \/ val.t = "str" /\ StringToNumber(val.s).nan
                       \/ /\ val.t = "obj"
                          /\ \E m \in 1..Len(val.o) :
                                \/ val.o[m].v.t # "str"
                                \/ StringToNumber(val.o[m].v.s).nan

QueryRejected(q) ==
    \/ \E c \in 1..Len(q.conds) : ConditionRejected(q.conds[c])
    \/ q.skipArg.t = "num" /\ q.skipArg.n < 0

\* the documents of the collection that the query's conditions select
Selected(q, docs, strict) ==
    {d \in docs : \A c \in 1..Len(q.conds) : Matches(d, q.conds[c], strict)}

\* Model.countDocuments(): every document of the collection
CountDocuments(docs) == Cardinality(docs)

\* the orders in which the engine may return the selected documents: ties of
\* the sort keys are returned in no particular order
Orderings(docs, keys) ==
    LET n == Cardinality(docs)
    IN  {f \in [1..n -> docs] :
            /\ \A i, j \in 1..n : i # j => f[i] # f[j]
            /\ \A i, j \in 1..n : i < j => CompareDocs(f[i], f[j], keys) <= 0}

Abs(i) == IF i < 0 THEN 0 - i ELSE i
Min(a, b) == IF a < b THEN a ELSE b

\* skip(n).limit(m) on an ordered result; a negative limit is its magnitude
Window(ordered, q) ==
    LET skip == IF q.skipArg.t = "num" THEN q.skipArg.n ELSE 0
        last == IF q.limitArg.t = "num"
                THEN Min(Len(ordered), skip + Abs(q.limitArg.n))
                ELSE Len(ordered)
    IN  SubSeq(ordered, skip + 1, last)

\* select("a b") keeps the listed paths and _id, select("-a") drops a
Project(doc, q) ==
    IF q.selectArg.t # "str" THEN doc
    ELSE LET tokens == Tokens(q.selectArg.s, " ", <<>>)
             listed == {tokens[i] : i \in 1..Len(tokens)}
             dropped == {Tail(tk) : tk \in {x \in listed : Head(x) = "-"}}
         IN  IF dropped # {}
             THEN SelectSeq(doc, LAMBDA p : p.k \notin dropped)
             ELSE SelectSeq(doc, LAMBDA p : p.k \in listed \cup {F_id})

\* the results  await mongooseQuery  may resolve to
ExecResults(q, docs, strict) ==
    LET keys == IF q.sortArg.t = "str" THEN SortKeys(q.sortArg.s) ELSE <<>>
    IN  {[i \in 1..Len(Window(f, q)) |-> Project(Window(f, q)[i], q)] :
            f \in Orderings(Selected(q, docs, strict), keys)}

(***************************************************************************)
(* Specification of paginate alone: the page and limit parameters are any  *)
(* strings over NumChars up to MaxNumLen characters, or absent             *)
(***************************************************************************)
NumChars == {"-", "0", "1", "2", "a"}
NumStrings == SeqsUpTo(NumChars, MaxNumLen)
NumParams == {Undefined} \cup {Str(s) : s \in NumStrings}
TotalCounts == (0..MaxCount) \cup {95, 100}

\* the query string holding the given page and limit, when defined
PageQuery(p, l) ==
    (IF p.t = "undef" THEN <<>> ELSE <<Pair(K_page, p)>>)
        \o (IF l.t = "undef" THEN <<>> ELSE <<Pair(K_limit, l)>>)

NoDocs == {}
NoReq == [query |-> <<>>, filterObj |-> Undefined]
NoRes == [t |-> "none"]
NoErr == [t |-> "none"]
\* process.env as the test setup leaves it
TestEnv == [NODE_ENV |-> "test", SKIP_CSRF |-> "unset"]
EmptyFilter == Obj(<<>>)

InitPaginate ==
    /\ db = NoDocs
    /\ strictQuery = FALSE
    /\ modelName = <<>>
    /\ res = NoRes
    /\ env = TestEnv
    /\ err = NoErr
    /\ issued = <<>>
    /\ pending = <<>>
    /\ \E p \in NumParams, l \in NumParams :
          /\ req = [query |-> PageQuery(p, l), filterObj |-> Undefined]
          /\ apiFeatures = NewApiFeatures(ModelFind(EmptyFilter), PageQuery(p, l))
    /\ documentsCounts \in TotalCounts
    /\ pc = "new"

Paginate ==
    /\ pc = "new"
    /\ apiFeatures' = paginate(apiFeatures, documentsCounts)
    /\ pc' = "paginated"
    /\ UNCHANGED <<db, strictQuery, req, modelName, documentsCounts, res, env, err, issued, pending>>

NextPaginate == Paginate

SpecPaginate == InitPaginate /\ [][NextPaginate]_vars


(***************************************************************************)
(* Specification of filter alone: the query string is any map of at most   *)
(* MaxParams parameters drawn from FilterParams, the builder holds the     *)
(* handler's base filter                                                   *)
(***************************************************************************)
FilterParams ==
    { Pair(K_page, Str(<<"2">>)),
      Pair(K_sort, Str(<<"-", "p", "r", "i", "c", "e", ",", "n", "a", "m", "e">>)),
      Pair(K_limit, Str(<<"1">>)),
      Pair(K_fields, Str(<<"n", "a", "m", "e">>)),
      Pair(K_keyword, Str(<<"p", "h", "o", "n", "e">>)),
      Pair(F_price, Obj(<<Pair(<<"g", "t", "e">>, Str(<<"1", "0", "0">>))>>)),
      Pair(F_price, Obj(<<Pair(<<"g", "t">>, Str(<<"5", "0">>)), Pair(<<"l", "t", "e">>, Str(<<"1", "0", "0">>))>>)),
      Pair(F_price, Str(<<"1", "0", "0">>)),
      Pair(F_category, Str(<<"e", "l", "e", "c", "t", "r", "o", "n", "i", "c", "s">>)),
      Pair(F_category, Str(<<"g", "t">>)),
      Pair(F_name, Str(<<"n", "o", "t", " ", "g", "t">>)),
      Pair(F_lt, Str(<<"5">>)) }

\* the objects of at most n of the given parameters, no key twice
RECURSIVE ParamMaps(_, _)
ParamMaps(params, n) ==
    IF n = 0 THEN {<<>>}
    ELSE LET shorter == ParamMaps(params, n - 1)
         IN  shorter \cup
             UNION {{Append(m, p) : p \in {y \in params : y.k \notin Keys(m)}} :
                       m \in {x \in shorter : Len(x) = n - 1}}

\* req.filterObj as a nested route sets it: absent, or the parent's id
BaseFilters == {Undefined, Obj(<<Pair(F_category, Str(<<"e", "l", "e", "c", "t", "r", "o", "n", "i", "c", "s">>))>>)}

\* let filter = {}; if (req.filterObj) filter = req.filterObj
FilterOf(request) ==
    IF request.filterObj.t = "undef" THEN EmptyFilter ELSE request.filterObj

InitFilter ==
    /\ db = NoDocs
    /\ strictQuery = FALSE
    /\ modelName = <<>>
    /\ res = NoRes
    /\ env = TestEnv
    /\ err = NoErr
    /\ issued = <<>>
    /\ pending = <<>>
    /\ documentsCounts = 0
    /\ \E q \in ParamMaps(FilterParams, MaxParams), f \in BaseFilters :
          /\ req = [query |-> q, filterObj |-> f]
          /\ apiFeatures =
                NewApiFeatures(ModelFind(FilterOf([query |-> q, filterObj |-> f])), q)
    /\ pc = "new"

Filter ==
    /\ pc = "new"
    /\ apiFeatures' = filter(apiFeatures)
    /\ pc' = "filtered"
    /\ UNCHANGED <<db, strictQuery, req, modelName, documentsCounts, res, env, err, issued, pending>>

NextFilter == Filter

SpecFilter == InitFilter /\ [][NextFilter]_vars

(***************************************************************************)
(* The list handler getAll(Model, modelName) against a collection that     *)
(* other requests insert into and delete from. The handler runs from its   *)
(* start to  await mongooseQuery  in one step (the count query and the     *)
(* synchronous pipeline), and from the query's execution to the response   *)
(* in a second step.                                                       *)
(***************************************************************************)
ListQueries ==
    { <<>>,
      <<Pair(K_keyword, Str(<<"p", "h", "o", "n", "e">>))>>,
      <<Pair(K_sort, Str(<<"-", "p", "r", "i", "c", "e", ",", "n", "a", "m", "e">>))>>,
      <<Pair(K_sort, Obj(<<Pair(F_name, Str(<<"1">>))>>))>>,
      <<Pair(K_limit, Str(<<"1">>))>>,
      <<Pair(K_limit, Str(<<"-", "1">>))>>,
      <<Pair(K_page, Str(<<"2">>)), Pair(K_limit, Str(<<"1">>))>>,
      <<Pair(K_page, Str(<<"-", "2">>))>>,
      <<Pair(F_price, Obj(<<Pair(<<"g", "t", "e">>, Str(<<"1", "0", "0">>))>>)),
        Pair(F_category, Str(<<"e", "l", "e", "c", "t", "r", "o", "n", "i", "c", "s">>))>>,
      <<Pair(K_fields, Str(<<"n", "a", "m", "e">>))>> }

ModelNames == {<<>>, M_Products}

NoApi == Undefined
ErrorResponse(kind) == [t |-> "error", kind |-> kind]
OkResponse(documents, pagination) ==
    [t |-> "ok", status |-> 200,
     body |-> [results |-> Len(documents), paginationResult |-> pagination,
               data |-> documents]]

Init ==
    /\ db = NoDocs
    /\ strictQuery \in BOOLEAN
    /\ req = NoReq
    /\ modelName = <<>>
    /\ documentsCounts = 0
    /\ apiFeatures = NoApi
    /\ res = NoRes
    /\ env = TestEnv
    /\ err = NoErr
    /\ issued = <<>>
    /\ pending = <<>>
    /\ pc = "idle"

\* the chain  new ApiFeatures(Model.find(filter), req.query).paginate(count)
\*    .filter().search(modelName).limitFields().sort()
Pipeline(request, name, count) ==
    sort(limitFields(search(filter(paginate(
        NewApiFeatures(ModelFind(FilterOf(request)), request.query), count)), name)))

\* limitFields() or sort() calls split on a value that is no string
PipelineThrows(queryString) ==
    \/ SplitThrows(Get(queryString, K_fields))
    \/ SplitThrows(Get(queryString, K_sort))

\* getAll up to  await mongooseQuery : the count, then the pipeline
GetAllBuild ==
    /\ pc = "idle"
    /\ \E q \in ListQueries, f \in BaseFilters, m \in ModelNames :
          /\ req' = [query |-> q, filterObj |-> f]
          /\ modelName' = m
          /\ documentsCounts' = CountDocuments(db)
          /\ IF PipelineThrows(q)
             THEN /\ apiFeatures' = NoApi
                  /\ res' = ErrorResponse("TypeError")
                  /\ pc' = "done"
             ELSE /\ apiFeatures' = Pipeline([query |-> q, filterObj |-> f], m,
                                             CountDocuments(db))
                  /\ res' = NoRes
                  /\ pc' = "querying"
    /\ UNCHANGED <<db, strictQuery, env, err, issued, pending>>

GetAllRespond_recount ==
    /\ pc = "querying"
    /\ IF QueryRejected(apiFeatures.mongooseQuery)
       THEN res' = ErrorResponse("QueryError")
       ELSE \E documents \in ExecResults(apiFeatures.mongooseQuery, db, strictQuery) :
               res' = OkResponse(documents,
                                 PaginationOf(apiFeatures.paginationResult.currentPage,
                                              apiFeatures.paginationResult.limit,
                                              CountDocuments(db)))
    /\ pc' = "done"
    /\ UNCHANGED <<db, strictQuery, req, modelName, documentsCounts, apiFeatures, env, err, issued, pending>>

\* the query executes and getAll responds
GetAllRespond ==
    /\ pc = "querying"
    /\ IF QueryRejected(apiFeatures.mongooseQuery)
       THEN res' = ErrorResponse("QueryError")
       ELSE \E documents \in ExecResults(apiFeatures.mongooseQuery, db, strictQuery) :
               res' = OkResponse(documents, apiFeatures.paginationResult)
    /\ pc' = "done"
    /\ UNCHANGED <<db, strictQuery, req, modelName, documentsCounts, apiFeatures, env, err, issued, pending>>

\* the request is over; the next one may come
Finish ==
    /\ pc = "done"
    /\ pc' = "idle"
    /\ req' = NoReq
    /\ modelName' = <<>>
    /\ documentsCounts' = 0
    /\ apiFeatures' = NoApi
    /\ res' = NoRes
    /\ UNCHANGED <<db, strictQuery, env, err, issued, pending>>

\* another request creates a document (createOne)
Insert ==
    /\ \E d \in DocPool \ db : db' = db \cup {d}
    /\ UNCHANGED <<strictQuery, req, modelName, documentsCounts, apiFeatures, res, pc, env, err, issued, pending>>

\* another request deletes a document (deleteOne)
Delete ==
    /\ \E d \in db : db' = db \ {d}
    /\ UNCHANGED <<strictQuery, req, modelName, documentsCounts, apiFeatures, res, pc, env, err, issued, pending>>

Next == GetAllBuild \/ GetAllRespond \/ Finish \/ Insert \/ Delete

Spec == Init /\ [][Next]_vars

(***************************************************************************)
(* Specification of the five stages applied once each in any order to one  *)
(* ApiFeatures object, with a fixed count. In this specification pc is the *)
(* sequence of the stages called so far; a stage that throws ends the      *)
(* chain.                                                                  *)
(***************************************************************************)
StageQueries ==
    ListQueries \cup
    { <<Pair(K_keyword, Str(<<>>))>>,
      <<Pair(K_keyword, Str(<<"T", "V">>))>>,
      <<Pair(K_keyword, Str(<<"c", "a", "m">>)), Pair(F_name, Str(<<"c", "a", "m">>))>>,
      <<Pair(K_fields, Str(<<"n", "a", "m", "e", ",", "p", "r", "i", "c", "e">>))>>,
      <<Pair(K_fields, Str(<<>>))>>,
      <<Pair(K_fields, Str(<<"c", "o", "l", "o", "r">>)), Pair(K_sort, Str(<<"n", "a", "m", "e">>))>>,
      <<Pair(K_fields, Obj(<<Pair(F_name, Str(<<"1">>))>>))>>,
      <<Pair(K_page, Str(<<"2">>)), Pair(K_limit, Str(<<"1">>)),
        Pair(K_sort, Str(<<"-", "p", "r", "i", "c", "e", ",", "n", "a", "m", "e">>)),
        Pair(K_fields, Str(<<"t", "i", "t", "l", "e", ",", "p", "r", "i", "c", "e">>)),
        Pair(K_keyword, Str(<<"p", "h", "o", "n", "e">>)),
        Pair(F_price, Obj(<<Pair(<<"g", "t", "e">>, Str(<<"1", "0", "0">>))>>))>> }

InitStages ==
    /\ db = NoDocs
    /\ strictQuery = FALSE
    /\ res = NoRes
    /\ env = TestEnv
    /\ err = NoErr
    /\ issued = <<>>
    /\ pending = <<>>
    /\ documentsCounts \in {0, MaxCount}
    /\ modelName \in ModelNames
    /\ \E q \in StageQueries, f \in BaseFilters :
          /\ req = [query |-> q, filterObj |-> f]
          /\ apiFeatures =
                NewApiFeatures(ModelFind(FilterOf([query |-> q, filterObj |-> f])), q)
    /\ pc = <<>>

\* one call of a stage on the object: it returns this, or throws
CallStage(stage, returned, throws) ==
    /\ res = NoRes
    /\ \A i \in 1..Len(pc) : pc[i] # stage
    /\ pc' = Append(pc, stage)
    /\ IF throws
       THEN res' = ErrorResponse("TypeError") /\ UNCHANGED apiFeatures
       ELSE apiFeatures' = returned /\ UNCHANGED res
    /\ UNCHANGED <<db, strictQuery, req, modelName, documentsCounts, env, err, issued, pending>>

StagePaginate == CallStage("paginate", paginate(apiFeatures, documentsCounts), FALSE)
StageFilter == CallStage("filter", filter(apiFeatures), FALSE)
StageSearch == CallStage("search", search(apiFeatures, modelName), FALSE)
StageLimitFields ==
    CallStage("limitFields", limitFields(apiFeatures),
              SplitThrows(Get(apiFeatures.queryString, K_fields)))
StageSort ==
    CallStage("sort", sort(apiFeatures),
              SplitThrows(Get(apiFeatures.queryString, K_sort)))

NextStages ==
    StagePaginate \/ StageFilter \/ StageSearch \/ StageLimitFields \/ StageSort

SpecStages == InitStages /\ [][NextStages]_vars

(***************************************************************************)
(* CSRF protection: the token utilities, shouldSkipCSRF, csrfProtection,   *)
(* the /api/v1 wrapper of the application, the routes behind it, and the   *)
(* two error handlers. Secrets and tokens are strings: the token made from *)
(* a secret and a salt is  salt "-" hash(salt "-" secret); Hash stands for *)
(* the digest, as an injection.                                            *)
(***************************************************************************)
Secrets == {<<"s", DigitChar(i)>> : i \in 1..MaxSecrets}
Salts == {<<"a", DigitChar(i)>> : i \in 1..MaxSalts}

Hash(chars) == <<"#">> \o chars

generateSecret_repeating(used) == Secrets

\* tokens.secretSync(): random bytes, a value no earlier call returned. The
\* secrets are alike but for their names, so the call is given the first
\* of those not yet returned
generateSecret(used) ==
    {s \in Secrets \ used :
        \A other \in Secrets \ used : DigitValue(s[2]) <= DigitValue(other[2])}

\* tokens.create(secret), for the salt it draws
generateToken(secret, salt) == salt \o <<"-">> \o Hash(salt \o <<"-">> \o secret)

\* the characters of chars before its first "-"
RECURSIVE BeforeDash(_)
BeforeDash(chars) ==
    IF chars = <<>> \/ Head(chars) = "-" THEN <<>>
    ELSE <<Head(chars)>> \o BeforeDash(Tail(chars))

\* tokens.verify(secret, token): both non-empty strings, the token holds a
\* "-", and it equals the token made from the secret and the token's salt
verifyToken(secret, token) ==
    /\ secret.t = "str" /\ secret.s # <<>>
    /\ token.t = "str" /\ token.s # <<>>
    /\ \E i \in 1..Len(token.s) : token.s[i] = "-"
    /\ token.s = generateToken(secret.s, BeforeDash(token.s))

P_webhook == <<"/", "w", "e", "b", "h", "o", "o", "k">>
SafeMethods == {"GET", "HEAD", "OPTIONS"}

\* isCSRFExempt(req) of the CSRF utilities
isCSRFExempt(request, environment) ==
    IF request.method \in {"GET", "HEAD", "OPTIONS"} THEN TRUE
    ELSE IF Contains(request.path, <<"/", "w", "e", "b", "h", "o", "o", "k">>) THEN TRUE
    ELSE IF Truthy(request.apiKey) THEN TRUE
    ELSE IF environment.NODE_ENV = "development" /\ environment.SKIP_CSRF = "true"
    THEN TRUE
    ELSE FALSE

shouldSkipCSRF_noApiKey(request, environment) ==
    \/ Contains(request.path, P_webhook)
    \/ request.method \in SafeMethods
    \/ environment.NODE_ENV = "development" /\ environment.SKIP_CSRF = "true"

shouldSkipCSRF_anyEnv(request, environment) ==
    \/ Contains(request.path, P_webhook)
    \/ Truthy(request.apiKey)
    \/ request.method \in SafeMethods
    \/ environment.SKIP_CSRF = "true"

shouldSkipCSRF(request, environment) ==
    \/ Contains(request.path, P_webhook)
    \/ Truthy(request.apiKey)
    \/ request.method \in SafeMethods
    \/ environment.NODE_ENV = "development" /\ environment.SKIP_CSRF = "true"

\* new ApiError(message, statusCode)
ApiError(message, statusCode) ==
    [t |-> "ApiError", message |-> message, statusCode |-> statusCode,
     code |-> "none"]

NextCall == [t |-> "next"]

OrElse_second(a, b) == IF Truthy(b) THEN b ELSE a

\* a || b
OrElse(a, b) == IF Truthy(a) THEN a ELSE b

csrfProtection_noQuery(request, environment) ==
    IF shouldSkipCSRF(request, environment) THEN NextCall
    ELSE IF ~Truthy(request.secretCookie)
    THEN ApiError("CSRF secret not found. Please refresh the page.", 403)
    ELSE LET token == OrElse(request.tokenHeader, request.tokenBody)
         IN  IF ~Truthy(token)
             THEN ApiError("CSRF token missing. Please include CSRF token in your request.", 403)
             ELSE IF ~verifyToken(request.secretCookie, token)
             THEN ApiError("Invalid CSRF token. Request rejected for security.", 403)
             ELSE NextCall

csrfProtection_tokenFirst(request, environment) ==
    IF shouldSkipCSRF(request, environment) THEN NextCall
    ELSE LET first == OrElse(request.tokenHeader, request.tokenBody)
             token == IF ~Truthy(first) /\ Truthy(request.tokenQuery)
                      THEN request.tokenQuery ELSE first
         IN  IF ~Truthy(token)
             THEN ApiError("CSRF token missing. Please include CSRF token in your request.", 403)
             ELSE IF ~Truthy(request.secretCookie)
             THEN ApiError("CSRF secret not found. Please refresh the page.", 403)
             ELSE IF ~verifyToken(request.secretCookie, token)
             THEN ApiError("Invalid CSRF token. Request rejected for security.", 403)
             ELSE NextCall

Null == [t |-> "null"]

\* getCSRFToken(req): header || body || query || null
getCSRFToken(request) ==
    OrElse(OrElse(OrElse(request.tokenHeader, request.tokenBody),
                  request.tokenQuery), Null)

\* what csrfProtection hands to next(): nothing, or an error
csrfProtection(request, environment) ==
    IF shouldSkipCSRF(request, environment) THEN NextCall
    ELSE IF ~Truthy(request.secretCookie)
    THEN ApiError("CSRF secret not found. Please refresh the page.", 403)
    ELSE LET first == OrElse(request.tokenHeader, request.tokenBody)
             token == IF ~Truthy(first) /\ Truthy(request.tokenQuery)
                      THEN request.tokenQuery ELSE first
         IN  IF ~Truthy(token)
             THEN ApiError("CSRF token missing. Please include CSRF token in your request.", 403)
             ELSE IF ~verifyToken(request.secretCookie, token)
             THEN ApiError("Invalid CSRF token. Request rejected for security.", 403)
             ELSE NextCall

(***************************************************************************)
(* The application's chain for one request at a time: the middleware in    *)
(* front of the routes (cors, the webhook route, the /api/v1 CSRF          *)
(* wrapper), the mounted routes, app.all("*"), csrfErrorHandler and        *)
(* globalError. A request is                                               *)
(*   [method, mount, path, secretCookie, tokenHeader, tokenBody,           *)
(*    tokenQuery, apiKey]                                                  *)
(* where mount is "/api/v1" or "" and path is what follows the mount;      *)
(* secretCookie is req.cookies._csrf_secret, tokenHeader the x-csrf-token  *)
(* header, tokenBody req.body._csrf, tokenQuery req.query._csrf.           *)
(***************************************************************************)
StateChanging == {"POST", "PUT", "DELETE", "PATCH"}

P_brands == <<"/", "b", "r", "a", "n", "d", "s">>
P_csrfToken == <<"/", "c", "s", "r", "f", "-", "t", "o", "k", "e", "n">>
P_webhookCheckout == P_webhook \o <<"-", "c", "h", "e", "c", "k", "o", "u", "t">>

\* the paths requested below /api/v1: the brands collection, two of its
\* items by id ("webhook1" and "1"), the token endpoint, and a path no
\* route serves
ApiPaths ==
    {P_brands, P_brands \o P_webhook \o <<"1">>, P_brands \o <<"/", "1">>,
     P_csrfToken, <<"/", "n", "o", "n", "e">>}

IssuedTokens == {Str(generateToken(s, a)) : s \in Secrets, a \in Salts}

CsrfRequests ==
    [method : SafeMethods \cup StateChanging,
     mount : {"/api/v1"},
     path : ApiPaths,
     secretCookie : {Undefined} \cup {Str(s) : s \in Secrets},
     tokenHeader : {Undefined, Str(<<>>), Str(<<"x">>)} \cup IssuedTokens,
     tokenBody : {Undefined, Str(generateToken(<<"s", "1">>, <<"a", "1">>))},
     tokenQuery : {Undefined, Str(generateToken(<<"s", "1">>, <<"a", "1">>))},
     apiKey : {Undefined, Str(<<"k">>)}]
    \cup
    [method : {"GET", "POST"},
     mount : {""},
     path : {P_webhookCheckout},
     secretCookie : {Undefined},
     tokenHeader : {Undefined},
     tokenBody : {Undefined},
     tokenQuery : {Undefined},
     apiKey : {Undefined}]

Envs == [NODE_ENV : {"test", "development", "production"},
         SKIP_CSRF : {"unset", "true", "false"}]

\* res.status(status).json(body), sent by the named part of the chain
HttpResponse(status, body, by) ==
    [t |-> "http", status |-> status, body |-> body, by |-> by,
     setCookie |-> Undefined]

InitCsrf ==
    /\ db = NoDocs
    /\ strictQuery = FALSE
    /\ modelName = <<>>
    /\ documentsCounts = 0
    /\ apiFeatures = NoApi
    /\ req = NoReq
    /\ res = NoRes
    /\ err = NoErr
    /\ issued = <<>>
    /\ pending = <<>>
    /\ env \in Envs
    /\ pc = "idle"

listVars == <<db, strictQuery, modelName, documentsCounts, apiFeatures>>

\* the secrets the token endpoint has handed out
IssuedSecrets == {issued[i].secret.s : i \in 1..Len(issued)}

\* the request is answered by generateCSRFToken
AsksToken(request) ==
    /\ request.mount = "/api/v1"
    /\ request.path = P_csrfToken
    /\ request.method \in {"GET", "HEAD"}

\* the run follows MaxIssues issuances, each with a secret of its own
CanIssue == Len(issued) < MaxIssues /\ generateSecret(IssuedSecrets) # {}

\* a test or an operator sets process.env between two requests
SetEnv ==
    /\ pc = "idle"
    /\ env' \in Envs
    /\ UNCHANGED <<listVars, issued, pending, req, res, err, pc>>

Receive_noWebhookRoute ==
    /\ pc = "idle"
    /\ \E r \in CsrfRequests :
          /\ AsksToken(r) => CanIssue
          /\ req' = r
          /\ IF r.method = "OPTIONS"
             THEN res' = HttpResponse(204, [status |-> "none"], "cors") /\ pc' = "done"
             ELSE /\ res' = NoRes
                  /\ pc' = IF r.mount = "/api/v1" \/ r.path = P_webhookCheckout
                           THEN "csrf" ELSE "routes"
    /\ UNCHANGED <<listVars, issued, pending, env, err>>

\* a request arrives and passes the middleware ahead of the CSRF wrapper:
\* cors answers OPTIONS, the webhook route serves POST /webhook-checkout
Receive ==
    /\ pc = "idle"
    /\ \E r \in CsrfRequests :
          /\ AsksToken(r) => CanIssue
          /\ req' = r
          /\ IF r.method = "OPTIONS"
             THEN res' = HttpResponse(204, [status |-> "none"], "cors") /\ pc' = "done"
             ELSE IF r.mount = "" /\ r.path = P_webhookCheckout /\ r.method = "POST"
             THEN /\ \E status \in {200, 400} :
                        res' = HttpResponse(status, [status |-> "unmodelled"], "webhookCheckout")
                  /\ pc' = "done"
             ELSE /\ res' = NoRes
                  /\ pc' = IF r.mount = "/api/v1" THEN "csrf" ELSE "routes"
    /\ UNCHANGED <<listVars, issued, pending, env, err>>

\* app.use("/api/v1", ...): csrfProtection for the state-changing methods
CsrfWrapper ==
    /\ pc = "csrf"
    /\ LET outcome == IF req.method \in StateChanging
                      THEN csrfProtection(req, env) ELSE NextCall
       IN  IF outcome = NextCall
           THEN pc' = "routes" /\ UNCHANGED err
           ELSE pc' = "errors" /\ err' = outcome
    /\ UNCHANGED <<listVars, issued, pending, req, res, env>>

\* does a mounted route serve the request: the token endpoint, and a
\* resource router ("/" get and post, "/:id" get, put and delete)
RouteServes(request) ==
    /\ request.mount = "/api/v1"
    /\ \/ request.path = P_csrfToken /\ request.method \in {"GET", "HEAD"}
       \/ request.path = P_brands /\ request.method \in {"GET", "HEAD", "POST"}
       \/ /\ Len(request.path) > Len(P_brands) + 1
          /\ SubSeq(request.path, 1, Len(P_brands) + 1) = P_brands \o <<"/">>
          /\ \A i \in (Len(P_brands) + 2)..Len(request.path) : request.path[i] # "/"
          /\ request.method \in {"GET", "HEAD", "PUT", "DELETE"}

\* generateCSRFToken: a new secret in the _csrf_secret cookie, its token in
\* the body
generateCSRFToken(secret, salt) ==
    [HttpResponse(200, [status |-> "success",
                        data |-> [csrfToken |-> Str(generateToken(secret, salt))]],
                  "generateCSRFToken")
        EXCEPT !.setCookie = Str(secret)]

\* mountRoutes(app) and app.all("*"): the route's handler answers (the
\* resource handlers are not followed here: they answer, with some status),
\* or no route serves the request
Routes ==
    /\ pc = "routes"
    /\ IF RouteServes(req)
       THEN /\ IF req.path = P_csrfToken
               THEN \E secret \in generateSecret(IssuedSecrets), salt \in Salts :
                       /\ res' = generateCSRFToken(secret, salt)
                       /\ issued' = Append(issued,
                                       [secret |-> Str(secret),
                                        token |-> Str(generateToken(secret, salt))])
               ELSE /\ \E status \in {200, 401, 404} :
                          res' = HttpResponse(status, [status |-> "unmodelled"], "handler")
                    /\ UNCHANGED issued
            /\ pc' = "done"
            /\ UNCHANGED err
       ELSE /\ err' = ApiError("Can't find this route", 400)
            /\ pc' = "errors"
            /\ UNCHANGED <<res, issued>>
    /\ UNCHANGED <<listVars, pending, req, env>>

\* app.use(csrfErrorHandler): answers the errors coded EBADCSRFTOKEN, hands
\* the others on
csrfErrorHandler ==
    /\ pc = "errors"
    /\ IF err.code = "EBADCSRFTOKEN"
       THEN /\ res' = HttpResponse(403,
                         [status |-> "fail",
                          message |-> "Invalid CSRF token. Request rejected for security.",
                          error |-> "CSRF_TOKEN_INVALID"],
                         "csrfErrorHandler")
            /\ pc' = "done"
       ELSE /\ pc' = "globalError"
            /\ UNCHANGED res
    /\ UNCHANGED <<listVars, issued, pending, req, env, err>>

\* app.use(globalError)
globalError ==
    /\ pc = "globalError"
    /\ res' = HttpResponse(err.statusCode,
                  [status |-> "error", statusCode |-> err.statusCode,
                   message |-> err.message],
                  "globalError")
    /\ pc' = "done"
    /\ UNCHANGED <<listVars, issued, pending, req, env, err>>

\* the response is sent; the next request may come
FinishCsrf ==
    /\ pc = "done"
    /\ pc' = "idle"
    /\ req' = NoReq
    /\ res' = NoRes
    /\ err' = NoErr
    /\ UNCHANGED <<listVars, issued, pending, env>>

NextCsrf ==
    SetEnv \/ Receive \/ CsrfWrapper \/ Routes \/ csrfErrorHandler \/ globalError
        \/ FinishCsrf

SpecCsrf == InitCsrf /\ [][NextCsrf]_vars

(***************************************************************************)
(* The handlers factory on the Brand model: getOne, createOne, updateOne   *)
(* and deleteOne, the model's post-init and post-save hooks, and the       *)
(* save() and remove() calls the handlers start without awaiting them.     *)
(* A stored brand is [_id, image]; the fields no hook touches (name, slug, *)
(* timestamps) are left out. A request is [handler, params, body]. A call  *)
(* in flight is [op, _id, image, dirty, state]: image is the value the     *)
(* document holds in memory, dirty says whether that path is modified.     *)
(***************************************************************************)
\* process.env.BASE_URL
BASE_URL == <<"h", ":", "/", "/", "x">>

\* the file names the upload middleware gives
FileNames == {<<"f">>, <<"g">>}

\* the ids requested: each is the id of a stored brand at some times, of
\* none at others
BrandIds == {"1", "2"}

setImageURL_keepingUrls(doc, uploadPath, fieldName) ==
    IF Truthy(doc[fieldName]) /\ doc[fieldName].s \in FileNames
    THEN [doc EXCEPT ![fieldName] =
             Str(BASE_URL \o <<"/">> \o uploadPath \o <<"/">> \o doc[fieldName].s)]
    ELSE doc

\* setImageURL(doc, uploadPath, fieldName), multiple = false
setImageURL(doc, uploadPath, fieldName) ==
    IF Truthy(doc[fieldName])
    THEN [doc EXCEPT ![fieldName] =
             Str(BASE_URL \o <<"/">> \o uploadPath \o <<"/">> \o doc[fieldName].s)]
    ELSE doc

\* brandSchema.post("init") and brandSchema.post("save")
postInit(doc) == setImageURL(doc, <<"b", "r", "a", "n", "d", "s">>, "image")
postSave(doc) == setImageURL(doc, <<"b", "r", "a", "n", "d", "s">>, "image")

\* the stored brands of the given id (none or one)
Stored(id) == {d \in db : d._id = id}

ItemRequests ==
    [handler : {"getOne", "updateOne", "deleteOne"},
     params : [id : BrandIds],
     body : [image : {Undefined} \cup {Str(f) : f \in FileNames}]]
    \cup
    [handler : {"createOne"},
     params : [id : {"none"}],
     body : [image : {Undefined} \cup {Str(f) : f \in FileNames}]]

\* the ids nothing refers to: ObjectIds are not given twice
FreeIds ==
    BrandIds \ ({d._id : d \in db} \cup {pending[i]._id : i \in DOMAIN pending})

\* the places in pending of the calls that were rejected
Rejected == {i \in DOMAIN pending : pending[i].state = "rejected"}

InitItems ==
    /\ db = NoDocs
    /\ strictQuery = FALSE
    /\ modelName = <<>>
    /\ documentsCounts = 0
    /\ apiFeatures = NoApi
    /\ req = NoReq
    /\ res = NoRes
    /\ err = NoErr
    /\ issued = <<>>
    /\ pending = <<>>
    /\ env = TestEnv
    /\ pc = "idle"

itemVars == <<strictQuery, modelName, documentsCounts, apiFeatures, env, issued>>

\* a request reaches its handler, past the route's validators: while the
\* server listens, MaxPending calls are in flight at most, and a stored
\* image is no longer than MaxStoredLen when its brand is updated
ReceiveItem ==
    /\ pc = "idle"
    /\ Rejected = {}
    /\ \E r \in ItemRequests :
          /\ r.handler = "createOne" => FreeIds # {}
          /\ r.handler \in {"updateOne", "deleteOne"} => Len(pending) < MaxPending
          /\ r.handler = "updateOne" =>
                \A d \in Stored(r.params.id) :
                    Truthy(d.image) => Len(d.image.s) <= MaxStoredLen
          /\ req' = r
    /\ pc' = "handler"
    /\ UNCHANGED <<itemVars, db, res, err, pending>>

NoDocument(id) == ApiError("No document for this id " \o id, 404)

getOne ==
    /\ pc = "handler"
    /\ req.handler = "getOne"
    /\ IF Stored(req.params.id) = {}
       THEN /\ err' = NoDocument(req.params.id)
            /\ pc' = "errors"
            /\ UNCHANGED res
       ELSE /\ \E d \in Stored(req.params.id) :
                  res' = HttpResponse(200, [data |-> postInit(d)], "getOne")
            /\ pc' = "done"
            /\ UNCHANGED err
    /\ UNCHANGED <<itemVars, db, req, pending>>

\* Model.create(req.body): the document is stored, then the post-save hook
\* runs on the document in memory
createOne ==
    /\ pc = "handler"
    /\ req.handler = "createOne"
    /\ \E id \in FreeIds :
          LET newDoc == [_id |-> id, image |-> req.body.image]
          IN  /\ db' = db \cup {newDoc}
              /\ res' = HttpResponse(201, [data |-> postSave(newDoc)], "createOne")
    /\ pc' = "done"
    /\ UNCHANGED <<itemVars, req, err, pending>>

\* findByIdAndUpdate(id, body, {new: true}) on the stored brand
Updated(d, body) ==
    [d EXCEPT !.image = IF body.image = Undefined THEN @ ELSE body.image]

updateOne_upserting ==
    /\ pc = "handler"
    /\ req.handler = "updateOne"
    /\ LET updated == IF Stored(req.params.id) = {}
                      THEN [_id |-> req.params.id, image |-> req.body.image]
                      ELSE Updated(CHOOSE d \in Stored(req.params.id) : TRUE, req.body)
           document == postInit(updated)
       IN  /\ db' = (db \ Stored(req.params.id)) \cup {updated}
           /\ pending' = Append(pending,
                 [op |-> "save", _id |-> document._id, image |-> document.image,
                  dirty |-> document.image # updated.image, state |-> "started"])
           /\ res' = HttpResponse(200, [data |-> document], "updateOne")
    /\ pc' = "done"
    /\ UNCHANGED <<itemVars, req, err>>

updateOne_awaiting ==
    /\ pc = "handler"
    /\ req.handler = "updateOne"
    /\ IF Stored(req.params.id) = {}
       THEN /\ err' = NoDocument(req.params.id)
            /\ pc' = "errors"
            /\ UNCHANGED <<res, db>>
       ELSE \E d \in Stored(req.params.id) :
               LET updated == Updated(d, req.body)
                   document == postInit(updated)
               IN  \/ /\ db' = (db \ {d}) \cup {[updated EXCEPT !.image = document.image]}
                      /\ res' = HttpResponse(200, [data |-> postSave(document)], "updateOne")
                      /\ pc' = "done"
                      /\ UNCHANGED err
                   \/ /\ db' = (db \ {d}) \cup {updated}
                      /\ err' = [t |-> "Error", message |-> "save failed",
                                 statusCode |-> 500, code |-> "none"]
                      /\ pc' = "errors"
                      /\ UNCHANGED res
    /\ UNCHANGED <<itemVars, req, pending>>

\* the update is written and the updated document read back through the
\* post-init hook; document.save() is started and the response sent
updateOne ==
    /\ pc = "handler"
    /\ req.handler = "updateOne"
    /\ IF Stored(req.params.id) = {}
       THEN /\ err' = NoDocument(req.params.id)
            /\ pc' = "errors"
            /\ UNCHANGED <<res, db, pending>>
       ELSE /\ \E d \in Stored(req.params.id) :
                  LET updated == Updated(d, req.body)
                      document == postInit(updated)
                  IN  /\ db' = (db \ {d}) \cup {updated}
                      /\ pending' = Append(pending,
                            [op |-> "save", _id |-> document._id,
                             image |-> document.image,
                             dirty |-> document.image # updated.image,
                             state |-> "started"])
                      /\ res' = HttpResponse(200, [data |-> document], "updateOne")
            /\ pc' = "done"
            /\ UNCHANGED err
    /\ UNCHANGED <<itemVars, req>>

\* findByIdAndDelete(id); document.remove() is started and the response sent
deleteOne ==
    /\ pc = "handler"
    /\ req.handler = "deleteOne"
    /\ IF Stored(req.params.id) = {}
       THEN /\ err' = NoDocument(req.params.id)
            /\ pc' = "errors"
            /\ UNCHANGED <<res, db, pending>>
       ELSE /\ \E d \in Stored(req.params.id) :
                  LET document == postInit(d)
                  IN  /\ db' = db \ {d}
                      /\ pending' = Append(pending,
                            [op |-> "remove", _id |-> document._id,
                             image |-> document.image,
                             dirty |-> document.image # d.image,
                             state |-> "started"])
            /\ res' = HttpResponse(204, [status |-> "none"], "deleteOne")
            /\ pc' = "done"
            /\ UNCHANGED err
    /\ UNCHANGED <<itemVars, req>>

\* a started save() or remove() is fulfilled: save writes the modified path
\* of the document (the brand must still be stored), remove deletes by _id
Fulfilled ==
    /\ pc # "exited"
    /\ \E i \in DOMAIN pending :
          LET p == pending[i]
          IN  /\ p.state = "started"
              /\ p.op = "save" => Stored(p._id) # {}
              /\ db' = IF p.op = "remove" THEN db \ Stored(p._id)
                       ELSE IF p.dirty
                       THEN (db \ Stored(p._id)) \cup {[_id |-> p._id, image |-> p.image]}
                       ELSE db
              /\ pending' = SubSeq(pending, 1, i - 1) \o SubSeq(pending, i + 1, Len(pending))
    /\ UNCHANGED <<itemVars, req, res, err, pc>>

\* a started save() or remove() is rejected (the brand is gone, the
\* connection fails): nothing holds the promise
RejectedCall ==
    /\ pc # "exited"
    /\ \E i \in DOMAIN pending :
          /\ pending[i].state = "started"
          /\ pending' = [pending EXCEPT ![i].state = "rejected"]
    /\ UNCHANGED <<itemVars, db, req, res, err, pc>>

\* process.on("unhandledRejection"): the server closes and the process exits
unhandledRejection ==
    /\ pc = "idle"
    /\ Rejected # {}
    /\ pc' = "exited"
    /\ UNCHANGED <<itemVars, db, req, res, err, pending>>

NextItems ==
    \/ ReceiveItem \/ getOne \/ createOne \/ updateOne \/ deleteOne
    \/ Fulfilled \/ RejectedCall \/ unhandledRejection
    \/ csrfErrorHandler \/ globalError \/ FinishCsrf

SpecItems == InitItems /\ [][NextItems]_vars

(***************************************************************************)
(* Properties of paginate (checked under SpecPaginate)                     *)
(***************************************************************************)
PageParam == Get(req.query, K_page)
LimitParam == Get(req.query, K_limit)
Paginated == pc = "paginated"
PR == apiFeatures.paginationResult
MQ == apiFeatures.mongooseQuery

\* the value the specification gives a page / limit parameter: the default
\* when absent, non-numeric or not positive, else the coerced number
SpecifiedNumber(val, dflt) ==
    LET x == ToNumber(val)
    IN  IF val.t = "undef" \/ x.nan \/ x.n <= 0 THEN dflt ELSE x.n

\* C2: after paginate, the page is 1 and the limit is 50 whenever the
\* parameter is absent, non-numeric or non-positive after coercion, and the
\* coerced number otherwise
C2_PageLimitDefaults ==
    Paginated =>
        /\ PR.currentPage = SpecifiedNumber(PageParam, 1)
        /\ PR.limit = SpecifiedNumber(LimitParam, 50)

\* C7: after paginate, prev is present exactly when the current page is
\* greater than 1, and is then the current page minus 1
C7_PrevIffPageAboveOne ==
    Paginated =>
        /\ ("prev" \in DOMAIN PR) <=> (PR.currentPage > 1)
        /\ ("prev" \in DOMAIN PR) => PR.prev = PR.currentPage - 1

\* C8: after paginate, next is present exactly when currentPage * limit is
\* less than the total count, and is then the current page plus 1
C8_NextIffMoreDocuments ==
    Paginated =>
        /\ ("next" \in DOMAIN PR) <=> (PR.currentPage * PR.limit < documentsCounts)
        /\ ("next" \in DOMAIN PR) => PR.next = PR.currentPage + 1

\* total 95, limit 50 (the default), page 1: next is 2 and there is no prev;
\* and total 4, limit 2, page 2: the last page offers no next
C8_Witness ==
    /\ Paginated
    /\ documentsCounts = 95
    /\ PageParam = Undefined
    /\ LimitParam = Undefined
    /\ PR = [currentPage |-> 1, limit |-> 50, numberOfPages |-> 2, next |-> 2]

\* C9: for a positive effective limit and a count >= 0, numberOfPages is the
\* least n with n * limit >= count, and currentPage and limit are the page
\* and page size that the query's skip and limit were computed from
C9_NumberOfPagesIsCeil ==
    (Paginated /\ PR.limit > 0 /\ documentsCounts >= 0) =>
        /\ PR.numberOfPages * PR.limit >= documentsCounts
        /\ (PR.numberOfPages - 1) * PR.limit < documentsCounts
        /\ MQ.limitArg = [t |-> "num", n |-> PR.limit]
        /\ MQ.skipArg = [t |-> "num", n |-> (PR.currentPage - 1) * PR.limit]

\* total 95, page "2", limit absent: two pages of 50, the second is current
C9_Witness ==
    /\ Paginated
    /\ documentsCounts = 95
    /\ PageParam = Str(<<"2">>)
    /\ PR.limit = 50
    /\ PR.numberOfPages = 2
    /\ PR.currentPage = 2

\* C10: the query receives skip = (page - 1) * limit and limit = limit, and
\* the skip is never negative
C10_SkipNeverNegative ==
    Paginated =>
        /\ MQ.skipArg = [t |-> "num", n |-> (PR.currentPage - 1) * PR.limit]
        /\ MQ.limitArg = [t |-> "num", n |-> PR.limit]
        /\ MQ.skipArg.n >= 0

(***************************************************************************)
(* Properties of filter (checked under SpecFilter)                         *)
(***************************************************************************)
Filtered == pc = "filtered"
\* the argument of the find() call that filter() made
FilterArg == MQ.conds[Len(MQ.conds)]

OperatorNames == {Operators[a] : a \in 1..Len(Operators)}

\* the structural walk: in nested value objects, and only there, the keys
\* gte, gt, lte and lt take a "$" prefix
RenameOperatorKeys(pairs) ==
    [i \in 1..Len(pairs) |->
        Pair(IF pairs[i].k \in OperatorNames THEN <<"$">> \o pairs[i].k
             ELSE pairs[i].k,
             pairs[i].v)]

StructuralWalk(pairs) ==
    [i \in 1..Len(pairs) |->
        Pair(pairs[i].k,
             IF pairs[i].v.t = "obj" THEN Obj(RenameOperatorKeys(pairs[i].v.o))
             ELSE pairs[i].v)]

\* C5: the filter that stringify / regex replace / parse produces is the one
\* the structural walk produces: only keys gte, gt, lte, lt of nested value
\* objects are renamed, no string value and no top-level name is altered
C5_RewriteIsStructuralWalk ==
    Filtered => FilterArg = Obj(StructuralWalk(DeleteExcluded(req.query)))

\* C6: page, sort, limit and fields never become conditions; every other
\* parameter becomes an equality condition on its key (string value) or a
\* range condition on its key (nested object, operators prefixed); and the
\* new predicate is added to the base filter the builder already holds
C6_RemainingKeysBecomeConditions ==
    Filtered =>
        /\ Keys(FilterArg.o) \cap excludesFields = {}
        /\ \A i \in 1..Len(req.query) :
              LET p == req.query[i]
                  c == Get(FilterArg.o, p.k)
              IN  p.k \notin excludesFields =>
                     IF p.v.t = "str" THEN c = p.v
                     ELSE /\ c.t = "obj"
                          /\ Len(c.o) = Len(p.v.o)
                          /\ \A j \in 1..Len(p.v.o) :
                                p.v.o[j].k \in OperatorNames =>
                                   Get(c.o, <<"$">> \o p.v.o[j].k) = p.v.o[j].v
        /\ Keys(FilterArg.o) \subseteq Keys(req.query)
        /\ MQ.conds = <<FilterOf(req), FilterArg>>

(***************************************************************************)
(* Properties of getAll (checked under Spec)                               *)
(***************************************************************************)
SortParam == Get(req.query, K_sort)
Responded == pc = "done" /\ res.t = "ok"

\* the stored document a returned (projected) document came from
StoredDoc(returned) == CHOOSE d \in DocPool : Get(d, F_id) = Get(returned, F_id)

\* the documents of the collection that the handler's base filter selects
BaseFilterMatches(docs, request) ==
    {d \in docs : Matches(d, FilterOf(request), strictQuery)}

\* C1: at the step that counts and builds, numberOfPages is
\* ceil(T / limit) for T the number of documents matching the base filter
\* (req.filterObj) at that time, limit the effective page size
C1_PagesCountBaseFilter ==
    [][(pc = "idle" /\ pc' = "querying") =>
          apiFeatures'.paginationResult.numberOfPages =
             MathCeilDiv(Cardinality(BaseFilterMatches(db, req')),
                         apiFeatures'.paginationResult.limit)]_vars

\* the sort keys a comma-separated sort parameter names, left to right
NamedSortKeys(chars) ==
    LET tokens == Tokens(chars, ",", <<>>)
    IN  [i \in 1..Len(tokens) |->
            IF Head(tokens[i]) = "-"
            THEN [field |-> Tail(tokens[i]), dir |-> 0 - 1]
            ELSE [field |-> tokens[i], dir |-> 1]]

\* C3: the data of a response is ordered by createdAt descending when the
\* request has no sort parameter, and by the keys of the sort parameter,
\* left to right, '-' meaning descending, when it has one
C3_SortOrder ==
    Responded =>
        LET data == res.body.data
            keys == IF Truthy(SortParam) THEN NamedSortKeys(SortParam.s)
                    ELSE <<[field |-> F_createdAt, dir |-> 0 - 1]>>
        IN  \A i, j \in 1..Len(data) :
                i < j => CompareDocs(StoredDoc(data[i]), StoredDoc(data[j]), keys) <= 0

\* text contains part, case-insensitively
ContainsIgnoringCase(text, part) == Contains(ToLowerCase(text), ToLowerCase(part))

\* C4: for a request whose only parameter is keyword=K, the predicate the
\* pipeline built matches exactly the documents whose title or description
\* (Products), or whose name (other resources), contains K ignoring case,
\* and holds no condition on a keyword field
C4_KeywordOnlySearch ==
    (/\ pc = "querying"
     /\ Len(req.query) = 1
     /\ req.query[1].k = K_keyword
     /\ req.query[1].v.t = "str"
     /\ req.filterObj = Undefined) =>
        LET K == req.query[1].v.s
            conds == apiFeatures.mongooseQuery.conds
        IN  /\ \A d \in DocPool :
                  (\A c \in 1..Len(conds) : Matches(d, conds[c], strictQuery))
                     <=> IF modelName = M_Products
                         THEN \/ ContainsIgnoringCase(Get(d, F_title).s, K)
                              \/ ContainsIgnoringCase(Get(d, F_description).s, K)
                         ELSE ContainsIgnoringCase(Get(d, F_name).s, K)
            /\ \A c \in 1..Len(conds) : K_keyword \notin Keys(conds[c].o)

(***************************************************************************)
(* Properties of the stages (checked under SpecStages)                     *)
(***************************************************************************)
KeywordParam == Get(req.query, K_keyword)
FieldsParam == Get(req.query, K_fields)

\* the step in which the named stage returned
Returned(stage) == pc' = Append(pc, stage) /\ res' = NoRes

\* documents whose name, title and description each hold or lack the keywords
ProbeTexts == {<<"a", " ", "P", "h", "o", "n", "e">>, <<"t", "v">>}
ProbeDocs ==
    {<<Pair(F_name, Str(n)), Pair(F_title, Str(t)), Pair(F_description, Str(d))>> :
        n \in ProbeTexts, t \in ProbeTexts, d \in ProbeTexts}

\* the query builder apart from its find() conditions
Modifiers(q) == [q EXCEPT !.conds = <<>>]

\* C11: search(tag) with a non-empty keyword ANDs exactly one predicate into
\* the query: title or description contains the keyword (case-insensitive)
\* under the tag "Products", name contains the keyword under any other tag;
\* with the keyword absent or empty it leaves the object unchanged
C11_SearchPredicate ==
    [][Returned("search") =>
        IF KeywordParam.t = "str" /\ KeywordParam.s # <<>>
        THEN LET before == apiFeatures.mongooseQuery
                 after == apiFeatures'.mongooseQuery
                 added == after.conds[Len(after.conds)]
             IN  /\ Len(after.conds) = Len(before.conds) + 1
                 /\ SubSeq(after.conds, 1, Len(before.conds)) = before.conds
                 /\ Modifiers(after) = Modifiers(before)
                 /\ apiFeatures'.paginationResult = apiFeatures.paginationResult
                 /\ \A d \in ProbeDocs :
                       Matches(d, added, strictQuery) <=>
                           IF modelName = M_Products
                           THEN \/ ContainsIgnoringCase(Get(d, F_title).s, KeywordParam.s)
                                \/ ContainsIgnoringCase(Get(d, F_description).s, KeywordParam.s)
                           ELSE ContainsIgnoringCase(Get(d, F_name).s, KeywordParam.s)
        ELSE apiFeatures' = apiFeatures]_vars

\* search("Products") has added its predicate after filter() added its own
C11_Witness ==
    /\ Len(pc) >= 2 /\ pc[Len(pc)] = "search" /\ pc[Len(pc) - 1] = "filter"
    /\ modelName = M_Products
    /\ KeywordParam = Str(<<"p", "h", "o", "n", "e">>)
    /\ MQ.conds[Len(MQ.conds)] = SearchConditions(KeywordParam, M_Products)

\* the names listed in a comma-separated parameter
ListedNames(chars) ==
    {Tokens(chars, ",", <<>>)[i] : i \in 1..Len(Tokens(chars, ",", <<>>))}

\* C12: limitFields() with a non-empty fields parameter makes the projection
\* exactly the listed fields plus _id; with fields absent it makes the
\* projection every field except __v; nothing else of the query changes
C12_Projection ==
    [][Returned("limitFields") =>
        LET after == apiFeatures'.mongooseQuery
        IN  /\ [after EXCEPT !.selectArg = MQ.selectArg] = MQ
            /\ apiFeatures'.paginationResult = apiFeatures.paginationResult
            /\ \A d \in DocPool :
                  LET shown == Project(d, after)
                  IN  /\ Keys(shown) =
                            IF FieldsParam.t = "str" /\ FieldsParam.s # <<>>
                            THEN (ListedNames(FieldsParam.s) \cap Keys(d)) \cup {F_id}
                            ELSE Keys(d) \ {F_v}
                      /\ \A k \in Keys(shown) : Get(shown, k) = Get(d, k)]_vars

\* limitFields() has projected on two listed fields
C12_Witness ==
    /\ \E i \in 1..Len(pc) : pc[i] = "limitFields"
    /\ res = NoRes
    /\ FieldsParam = Str(<<"n", "a", "m", "e", ",", "p", "r", "i", "c", "e">>)
    /\ Keys(Project(Document(1), MQ)) = {F_id, F_name, F_price}

\* the conditions a query ANDs together
Predicate(q) == {q.conds[i] : i \in 1..Len(q.conds)}

\* the chain in the order getAll calls it
GetAllOrder == Pipeline(req, modelName, documentsCounts)

Responds == pc = "querying" /\ pc' = "done"

\* C14: nothing in getAll prevents or detects a change of the collection
\* between the count and the find: whenever the query is accepted the answer
\* is 200, its paginationResult is the one computed from the earlier count
\* and its data is a page of the collection as it is when the find runs
C14_RaceNotPrevented ==
    [][Responds =>
        IF QueryRejected(MQ) THEN res'.t = "error"
        ELSE /\ res'.t = "ok"
             /\ res'.body.paginationResult = PR
             /\ res'.body.paginationResult.numberOfPages =
                    MathCeilDiv(documentsCounts, PR.limit)
             /\ res'.body.data \in ExecResults(MQ, db, strictQuery)]_vars

\* a response to the plain list request (no base filter, no parameters) that
\* reports zero pages and carries two documents: they were inserted after
\* the count
C14_Witness ==
    /\ Responded
    /\ req = NoReq
    /\ documentsCounts = 0
    /\ res.body.paginationResult.numberOfPages = 0
    /\ "next" \notin DOMAIN res.body.paginationResult
    /\ res.body.results = 2

\* C15: a 200 response of getAll has the fields results, paginationResult
\* and data, results is the number of documents in data, and results is at
\* most paginationResult.limit
C15_ResponseShape ==
    Responded =>
        /\ DOMAIN res.body = {"results", "paginationResult", "data"}
        /\ res.body.results = Len(res.body.data)
        /\ res.body.results <= res.body.paginationResult.limit

\* the answers getAll can give to the request in progress when it runs from
\* its count to its response against the collection as it is
RunsOfGetAll ==
    LET run == Pipeline(req, modelName, CountDocuments(db))
    IN  IF QueryRejected(run.mongooseQuery) THEN {ErrorResponse("QueryError")}
        ELSE {OkResponse(documents, run.paginationResult) :
                documents \in ExecResults(run.mongooseQuery, db, strictQuery)}

\* C16: two runs of getAll with the same parameters against the unchanged
\* collection give the same data, in the same order, and the same
\* paginationResult
C16_Idempotent ==
    pc = "querying" => \A first, second \in RunsOfGetAll : first = second

(***************************************************************************)
(* Further properties of the stages (checked under SpecStages)             *)
(***************************************************************************)
\* C17: sort() and limitFields() never end in an error, whatever strings or
\* nested objects the parameter map holds
C17_SortAndFieldsNeverThrow ==
    \A i \in 1..Len(pc) : pc[i] \in {"sort", "limitFields"} => res = NoRes

\* C18: the parameter map the object was built on (req.query itself, which
\* the object holds by reference) is the same after every stage; filter()
\* deletes the control keys from its own copy only
C18_QueryStringUntouched ==
    /\ apiFeatures.queryString = req.query
    /\ (res = NoRes /\ \E i \in 1..Len(pc) : pc[i] = "filter") =>
          \E c \in 2..Len(MQ.conds) :
              MQ.conds[c] = FilterConditions(req.query)

\* filter() has dropped page and limit from the condition it added, and the
\* object's parameter map still holds them
C18_Witness ==
    /\ \E i \in 1..Len(pc) : pc[i] = "filter"
    /\ {K_page, K_limit} \subseteq Keys(apiFeatures.queryString)
    /\ \E c \in 2..Len(MQ.conds) :
          /\ MQ.conds[c] = FilterConditions(req.query)
          /\ Keys(MQ.conds[c].o) \cap excludesFields = {}

(***************************************************************************)
(* Properties of the CSRF protection (checked under SpecCsrf)              *)
(***************************************************************************)
Answered == pc = "done" /\ res.t = "http"

\* the request carries no secret cookie, no token anywhere and no API key
NoCredentials(request) ==
    /\ request.secretCookie = Undefined
    /\ request.tokenHeader = Undefined
    /\ request.tokenBody = Undefined
    /\ request.tokenQuery = Undefined
    /\ request.apiKey = Undefined

DevelopmentSkip == env.NODE_ENV = "development" /\ env.SKIP_CSRF = "true"

\* C19: a POST, PUT, PATCH or DELETE under /api/v1 without secret cookie,
\* token and x-api-key is answered 403 and reaches no route handler, unless
\* the process runs in development with SKIP_CSRF = "true"
C19_Unauthenticated403 ==
    (/\ Answered
     /\ req.mount = "/api/v1"
     /\ req.method \in StateChanging
     /\ NoCredentials(req)
     /\ ~DevelopmentSkip)
        => res.status = 403 /\ res.by = "globalError"

\* what csrfProtection decides on the request answered
Verdict == csrfProtection(req, env)

MissingMessage == "CSRF token missing. Please include CSRF token in your request."
InvalidMessage == "Invalid CSRF token. Request rejected for security."

\* C20: a state-changing request that csrfProtection rejects for a missing
\* or an invalid token (the secret cookie being present) is answered 403
\* with a JSON body whose status is "fail" and whose message is the
\* "CSRF token missing" resp. "Invalid CSRF token" one
C20_RejectionIsFail ==
    (/\ Answered
     /\ req.mount = "/api/v1"
     /\ req.method \in StateChanging
     /\ Truthy(req.secretCookie)
     /\ Verdict # NextCall)
        => /\ res.status = 403
           /\ res.body.message = Verdict.message
           /\ res.body.message \in {MissingMessage, InvalidMessage}
           /\ res.body.status = "fail"

SecretMessage == "CSRF secret not found. Please refresh the page."

\* the step of the /api/v1 wrapper on a state-changing request that
\* shouldSkipCSRF does not exempt
ChecksRequest ==
    /\ pc = "csrf"
    /\ pc' # "csrf"
    /\ req.method \in StateChanging
    /\ ~shouldSkipCSRF(req, env)

\* the tokens the request carries in its three places
PresentTokens ==
    {v \in {req.tokenHeader, req.tokenBody, req.tokenQuery} : Truthy(v)}

\* next(error) was called with a 403 of the given message, and only that
RejectedWith(message) ==
    /\ pc' = "errors"
    /\ err'.statusCode = 403
    /\ err'.message = message
    /\ UNCHANGED res

TokenByPrecedence ==
    IF Truthy(req.tokenHeader) THEN req.tokenHeader
    ELSE IF Truthy(req.tokenBody) THEN req.tokenBody
    ELSE IF Truthy(req.tokenQuery) THEN req.tokenQuery
    ELSE Null

CsrfMessages == {SecretMessage, MissingMessage, InvalidMessage}

\* C24: a GET, HEAD or OPTIONS request is never rejected by the CSRF
\* protection, whatever cookie and tokens it carries; POST /webhook-checkout
\* is answered by its own route and never comes to the CSRF check
C24_SafeMethodsAndWebhook ==
    /\ (pc # "idle" /\ req.method \in SafeMethods) =>
          (err = NoErr \/ err.message \notin CsrfMessages)
    /\ (pc # "idle" /\ req.method = "POST" /\ req.mount = ""
            /\ req.path = P_webhookCheckout) =>
          (pc = "done" /\ err = NoErr /\ res.by = "webhookCheckout")

\* a GET with a secret cookie and a header token that does not verify was
\* answered by its route's handler
C24_Witness ==
    /\ Answered
    /\ req.method = "GET"
    /\ Truthy(req.secretCookie)
    /\ req.tokenHeader = Str(<<"x">>)
    /\ res.by = "handler"

C25_WitnessSkipped ==
    /\ pc = "routes"
    /\ req.method = "POST"
    /\ NoCredentials(req)
    /\ DevelopmentSkip

\* C29: a state-changing request with a non-empty x-api-key header passes
\* csrfProtection whatever the key is and without cookie or token, and
\* isCSRFExempt gives the result of shouldSkipCSRF on every request and
\* environment
C29_ApiKeyBypass ==
    [][(pc # "idle" /\ pc' # pc) =>
        /\ isCSRFExempt(req, env) = shouldSkipCSRF(req, env)
        /\ (pc = "csrf" /\ req.method \in StateChanging /\ Truthy(req.apiKey))
              => (pc' = "routes" /\ err' = NoErr)]_vars

\* a POST with an API key and neither cookie nor token is past the check
C29_Witness ==
    /\ pc = "routes"
    /\ req.method = "POST"
    /\ Truthy(req.apiKey)
    /\ req.secretCookie = Undefined
    /\ PresentTokens = {}
    /\ ~DevelopmentSkip
    /\ ~Contains(req.path, P_webhook)

\* the request presents the cookie of the i-th issuance and, as its only
\* token, the token of the j-th, in whichever of the three places
Presents(i, j) ==
    /\ req.secretCookie = issued[i].secret
    /\ PresentTokens = {issued[j].token}

\* C22: a state-changing request that presents the cookie and the token of
\* one response of GET /api/v1/csrf-token, however long ago it was issued
\* and in whichever place the token stands, passes csrfProtection
C22_IssuedTokenPasses ==
    [][(/\ pc = "csrf" /\ pc' # "csrf"
        /\ req.method \in StateChanging
        /\ \E i \in 1..Len(issued) : Presents(i, i)) =>
            (pc' = "routes" /\ err' = NoErr)]_vars

\* a POST past the check on nothing but an issued pair
PassedOnPair(i) ==
    /\ pc = "routes"
    /\ req.method = "POST"
    /\ i \in 1..Len(issued)
    /\ Presents(i, i)
    /\ ~Truthy(req.apiKey)
    /\ ~DevelopmentSkip
    /\ ~Contains(req.path, P_webhook)

\* the pair of the first issuance, the token in the query, after the cookie
\* was overwritten by a second issuance
C22_Witness ==
    /\ Len(issued) = 2
    /\ PassedOnPair(1)
    /\ req.tokenQuery = issued[1].token

C22_WitnessHeader == PassedOnPair(1) /\ req.tokenHeader = issued[1].token
C22_WitnessBody == PassedOnPair(1) /\ req.tokenBody = issued[1].token

\* C30: each issuance sets the cookie to a secret never issued before, and
\* a state-changing request with the latest cookie and the token of the
\* issuance before it is handed to next() as 403 "Invalid CSRF token"
C30_OnlyLatestToken ==
    [][/\ (pc = "routes" /\ pc' = "done" /\ AsksToken(req)) =>
            /\ Len(issued') = Len(issued) + 1
            /\ res'.setCookie = issued'[Len(issued')].secret
            /\ res'.body.data.csrfToken = issued'[Len(issued')].token
            /\ \A i \in 1..Len(issued) : issued[i].secret # res'.setCookie
       /\ (/\ pc = "csrf" /\ pc' # "csrf"
           /\ req.method \in StateChanging
           /\ ~shouldSkipCSRF(req, env)
           /\ Len(issued) >= 2
           /\ Presents(Len(issued), Len(issued) - 1)) =>
               RejectedWith(InvalidMessage)]_vars

\* the client is answered 403 for the old token under the new cookie
C30_Witness ==
    /\ Answered
    /\ res.status = 403
    /\ res.body.message = InvalidMessage
    /\ req.method = "POST"
    /\ Len(issued) = 2
    /\ Presents(2, 1)

\* BASE_URL/brands/<filename>
BrandImageURL(filename) ==
    Str(BASE_URL \o <<"/", "b", "r", "a", "n", "d", "s", "/">> \o filename)

\* C28: every stored image of a brand is a bare file name, and every
\* response of createOne, getOne and updateOne that carries an image carries
\* BASE_URL/brands/<filename>, the prefix once
C28_ImagePrefixedOnce ==
    /\ \A d \in db : Truthy(d.image) => d.image.s \in FileNames
    /\ (/\ res.t = "http"
        /\ res.by \in {"createOne", "getOne", "updateOne"}
        /\ Truthy(res.body.data.image)) =>
            \E f \in FileNames : res.body.data.image = BrandImageURL(f)

\* the two halves of C28 apart: what is stored, what is answered
C28_StoredBare == \A d \in db : Truthy(d.image) => d.image.s \in FileNames
C28_AnsweredOnce ==
    (/\ res.t = "http"
     /\ res.by \in {"createOne", "getOne", "updateOne"}
     /\ Truthy(res.body.data.image)) =>
        \E f \in FileNames : res.body.data.image = BrandImageURL(f)

\* the handler in hand is getOne, updateOne or deleteOne and takes its step
ItemStep(handler) == pc = "handler" /\ pc' # "handler" /\ req.handler = handler

\* next() was called with the 404 of the id, nothing was sent, nothing
\* stored or started
NotFound ==
    /\ pc' = "errors"
    /\ err' = ApiError("No document for this id " \o req.params.id, 404)
    /\ UNCHANGED <<res, db, pending>>

\* C26: getOne, updateOne and deleteOne on an id no stored document has
\* call next() with ApiError("No document for this id <id>", 404), send
\* nothing and leave the collection as it is; on the id of a stored
\* document getOne answers 200 {data: document}, updateOne 200 {data: the
\* document with the body's fields}, deleteOne 204 with the document gone
C26_NotFoundOrSuccess ==
    [][/\ ItemStep("getOne") =>
            IF Stored(req.params.id) = {} THEN NotFound
            ELSE /\ pc' = "done" /\ res'.status = 200 /\ err' = NoErr
                 /\ res'.body.data \in {postInit(d) : d \in Stored(req.params.id)}
                 /\ db' = db
       /\ ItemStep("updateOne") =>
            IF Stored(req.params.id) = {} THEN NotFound
            ELSE /\ pc' = "done" /\ res'.status = 200 /\ err' = NoErr
                 /\ res'.body.data._id = req.params.id
                 /\ res'.body.data \in {postInit(d) : d \in Stored(req.params.id)'}
                 /\ Truthy(req.body.image) =>
                        \A d \in Stored(req.params.id)' : d.image = req.body.image
       /\ ItemStep("deleteOne") =>
            IF Stored(req.params.id) = {} THEN NotFound
            ELSE /\ pc' = "done" /\ res'.status = 204 /\ err' = NoErr
                 /\ Stored(req.params.id)' = {}]_vars

\* the client of an update of a missing id is answered 404
C26_Witness ==
    /\ Answered
    /\ req.handler = "updateOne"
    /\ Stored(req.params.id) = {}
    /\ res.status = 404
    /\ res.body.message = "No document for this id " \o req.params.id

C26_WitnessUpdated ==
    /\ Answered
    /\ req.handler = "updateOne"
    /\ res.status = 200
    /\ req.body.image = Str(<<"g">>)
    /\ res.body.data.image = BrandImageURL(<<"g">>)

C26_WitnessDeleted == Answered /\ req.handler = "deleteOne" /\ res.status = 204

\* C27: updateOne and deleteOne send their success response with the
\* save() resp. remove() they started still in flight, and a rejection of
\* that call reaches neither next() nor a response: it is left to the
\* process's unhandledRejection handler
C27_NotAwaited ==
    [][/\ \A h \in {"updateOne", "deleteOne"} :
            (ItemStep(h) /\ pc' = "done") =>
                /\ res'.status = (IF h = "updateOne" THEN 200 ELSE 204)
                /\ Len(pending') = Len(pending) + 1
                /\ SubSeq(pending', 1, Len(pending)) = pending
                /\ LET p == pending'[Len(pending')]
                   IN  /\ p.op = (IF h = "updateOne" THEN "save" ELSE "remove")
                       /\ p._id = req.params.id
                       /\ p.state = "started"
       /\ (Rejected' # Rejected) => UNCHANGED <<err, res, pc>>
       /\ (Rejected # {} /\ pc = "idle" /\ pc' # pc) => pc' = "exited"]_vars

\* the client holds the 200 of its update and the save is rejected
C27_Witness ==
    /\ pc = "done"
    /\ res.status = 200
    /\ res.by = "updateOne"
    /\ \E i \in Rejected : pending[i].op = "save" /\ pending[i]._id = req.params.id
    /\ err = NoErr

C27_WitnessExit == pc = "exited" /\ \E i \in Rejected : pending[i].op = "remove"

=============================================================================
